---- MODULE Spec2Model ----
(***************************************************************************)
(* Model of package postpone (src/postpone.go, current revision, lines     *)
(* 1-174): a Postpone handle wraps a reader, a reader factory or a         *)
(* read-seeker factory and acquires the resource on first use.             *)
(*                                                                         *)
(* One handle and the resource behind it are modelled.  Init is the state  *)
(* right after one of the five constructors returned; the environment (the *)
(* outcome of the factory, the bytes of the source, whether the source is  *)
(* an io.Closer, whether reading it fails) is chosen in Init.  Every       *)
(* method call is one action: the model is the sequential use of a handle. *)
(***************************************************************************)
EXTENDS Integers, Sequences, FiniteSets, TLC

\* ------------------------------------------------------------------ bounds
MaxLen == 2      \* longest byte sequence a source delivers
MaxBuf == 2      \* largest buffer a caller passes to Read
MaxCalls == 3    \* Read/Seek/Load calls made on the handle

Bytes == {"a", "b"}

Min(a, b) == IF a < b THEN a ELSE b

\* All byte sequences of length 0..MaxLen.
Datas == UNION {[1..n -> Bytes] : n \in 0..MaxLen}

\* ------------------------------------------------------------------ errors
\* A Go error value: nil, one error value itself, or an errlist of several.
Nil == [kind |-> "nil", errs |-> <<>>]
Bare(e) == [kind |-> "bare", errs |-> <<e>>]

EOF == Bare("EOF")                  \* io.EOF
ErrOpen == Bare("ErrOpen")          \* the error of a failed open / factory
ErrIO == Bare("ErrIO")              \* the error a source read stops on
ErrClosed == Bare("ErrClosed")      \* reading a source that was closed
ErrNegative == Bare("ErrNegative")  \* bytes.Reader.Seek: negative position

\* errlist.NewError(live).AddError(remembered).Err()
Merge(live, remembered) ==
    IF live = Nil THEN remembered
    ELSE IF remembered = Nil THEN live
    ELSE [kind |-> "list", errs |-> live.errs \o remembered.errs]

\* ------------------------------------------------------------------ state
VARIABLES
    ctor,    \* the constructor that built the handle
    p,       \* the Postpone struct
    fac,     \* what the factory returns when called: [stream, err]
    src,     \* the resource: [closeable, data, pos, err, closed]
    log,     \* what the handle did to the outside, in order
    ret,     \* the last call and what it returned
    ncalls,  \* number of Read/Seek/Load calls made
    conc     \* concurrent use: where each thread is inside its call

vars == <<ctor, p, fac, src, log, ret, ncalls, conc>>

\* p.rs: nil, the stream the factory returned ("live", backed by src), or a
\* bytes.Reader over the drained bytes ("mem").
NilRS == [kind |-> "nil", data |-> <<>>, pos |-> 0]
LiveRS == [kind |-> "live", data |-> <<>>, pos |-> 0]
MemRS(buf) == [kind |-> "mem", data |-> buf, pos |-> 0]

\* The struct literal of the constructors: {r, rs, getr, getrs, err, loaded, c, bad}.
Postpone(r, getr, getrs, c) ==
    [r |-> r, rs |-> NilRS, getr |-> getr, getrs |-> getrs, err |-> Nil,
     loaded |-> FALSE, c |-> c, bad |-> FALSE]

NewFunc(c) == Postpone(FALSE, FALSE, TRUE, c)
NewFuncPre(c) == Postpone(FALSE, TRUE, FALSE, c)
NewReader(r, c) == Postpone(r, FALSE, FALSE, c)
NewFile == NewFunc(FALSE)
NewFilePre == NewFuncPre(TRUE)

World == [p |-> p, fac |-> fac, src |-> src, log |-> log]

Ev(w, e) == [w EXCEPT !.log = Append(@, e)]

Count(s, e) == Cardinality({i \in 1..Len(s) : s[i] = e})

\* ------------------------------------------------------ the resource's side
\* What ioutil.ReadAll can end on.  The first read of an open source ends on
\* the source's own outcome (nil at end-of-data, or its read error).  What a
\* source answers when it is read again, or read after Close, is the
\* source's business: any of the outcomes it can produce.
DrainErrs(w) ==
    IF Count(w.log, "drain") = 0 /\ ~w.src.closed THEN {w.src.err}
    ELSE {w.src.err, Nil} \cup (IF w.src.closed THEN {ErrClosed} ELSE {})

\* buf, err := ioutil.ReadAll(source): everything from the source's position
\* on, and e, the error the source stops on.
ReadAll(w, e) ==
    [w   |-> [Ev(w, "drain") EXCEPT !.src.pos = Len(w.src.data)],
     buf |-> SubSeq(w.src.data, w.src.pos + 1, Len(w.src.data)),
     err |-> e]

\* c, ok := r.(io.Closer); if ok { c.Close() }   (r: is the reader non-nil)
CloseIfCloser(w, r) ==
    IF r /\ w.src.closeable
    THEN [Ev(w, "close") EXCEPT !.src.closed = TRUE]
    ELSE w

\* Read of a stream holding data at position pos into a buffer of n bytes.
StreamRead(data, pos, n) ==
    IF pos >= Len(data)
    THEN [n |-> 0, err |-> EOF, out |-> <<>>, pos |-> pos]
    ELSE LET k == Min(n, Len(data) - pos)
         IN [n |-> k, err |-> Nil, out |-> SubSeq(data, pos + 1, pos + k),
             pos |-> pos + k]

\* Seek of a stream of length len at position pos.
StreamSeek(len, pos, offset, whence) ==
    LET abs == CASE whence = "start" -> offset
                 [] whence = "current" -> pos + offset
                 [] whence = "end" -> len + offset
    IN IF abs < 0
       THEN [n |-> 0, err |-> ErrNegative, pos |-> pos]
       ELSE [n |-> abs, err |-> Nil, pos |-> abs]

\* p.rs.Read(buf)
rsRead(w, n) ==
    CASE w.p.rs.kind = "nil" ->
           [w |-> w, n |-> 0, err |-> Nil, out |-> <<>>, panic |-> TRUE]
      [] w.p.rs.kind = "mem" ->
           LET r == StreamRead(w.p.rs.data, w.p.rs.pos, n)
           IN [w |-> [w EXCEPT !.p.rs.pos = r.pos],
               n |-> r.n, err |-> r.err, out |-> r.out, panic |-> FALSE]
      [] w.p.rs.kind = "live" ->
           LET r == StreamRead(w.src.data, w.src.pos, n)
           IN [w |-> [Ev(w, "src.Read") EXCEPT !.src.pos = r.pos],
               n |-> r.n, err |-> r.err, out |-> r.out, panic |-> FALSE]

\* p.rs.Seek(offset, whence)
rsSeek(w, offset, whence) ==
    CASE w.p.rs.kind = "nil" ->
           [w |-> w, n |-> 0, err |-> Nil, out |-> <<>>, panic |-> TRUE]
      [] w.p.rs.kind = "mem" ->
           LET r == StreamSeek(Len(w.p.rs.data), w.p.rs.pos, offset, whence)
           IN [w |-> [w EXCEPT !.p.rs.pos = r.pos],
               n |-> r.n, err |-> r.err, out |-> <<>>, panic |-> FALSE]
      [] w.p.rs.kind = "live" ->
           LET r == StreamSeek(Len(w.src.data), w.src.pos, offset, whence)
           IN [w |-> [Ev(w, "src.Seek") EXCEPT !.src.pos = r.pos],
               n |-> r.n, err |-> r.err, out |-> <<>>, panic |-> FALSE]

\* ------------------------------------------------------------- retreive
\* Variant of retreive_getrs that keeps the factory reference (no p.getrs = nil).
retreive_getrs_keep(w) ==
    LET rs == IF w.fac.stream THEN LiveRS ELSE NilRS
    IN [Ev(w, "getrs") EXCEPT !.p.rs = rs,
                              !.p.err = w.fac.err,
                              !.p.bad = IF rs = NilRS THEN TRUE ELSE @]

\* Variant of retreive_getrs that marks the handle bad on an error instead of
\* on a nil stream.
retreive_getrs_errOnly(w) ==
    LET rs == IF w.fac.stream THEN LiveRS ELSE NilRS
    IN [Ev(w, "getrs") EXCEPT !.p.rs = rs,
                              !.p.err = w.fac.err,
                              !.p.getrs = FALSE,
                              !.p.bad = IF w.fac.err # Nil THEN TRUE ELSE @]

\* if p.getrs != nil { ... }
retreive_getrs(w) ==
    LET rs == IF w.fac.stream THEN LiveRS ELSE NilRS
    IN [Ev(w, "getrs") EXCEPT !.p.rs = rs,
                              !.p.err = w.fac.err,
                              !.p.getrs = FALSE,
                              !.p.bad = IF rs = NilRS THEN TRUE ELSE @]

\* Variant of getr_close that closes whatever the flag says (as the earlier
\* revision of the file does).
getr_close_always(w, r) == CloseIfCloser(w, r)

\* else if p.getr != nil { ... }: the close at the end of the branch.
getr_close(w, r) == IF w.p.c THEN CloseIfCloser(w, r) ELSE w

\* else if p.getr != nil { ... }
retreive_getr(w, e) ==
    LET r  == w.fac.stream
        w1 == [Ev(w, "getr") EXCEPT !.p.err = w.fac.err, !.p.getr = FALSE]
        w2 == IF ~r \/ w1.p.err # Nil
              THEN [w1 EXCEPT !.p.bad = TRUE]
              ELSE LET d == ReadAll(w1, e)
                   IN [d.w EXCEPT !.p.err = d.err, !.p.rs = MemRS(d.buf)]
    IN getr_close(w2, r)

\* Variant of retreive_r that closes the reader before reading it.
retreive_r_closeFirst(w, e) ==
    IF ~w.p.r
    THEN [w EXCEPT !.p.bad = TRUE]
    ELSE LET w0 == IF w.p.c THEN CloseIfCloser(w, w.p.r) ELSE w
             d  == ReadAll(w0, e)
         IN [d.w EXCEPT !.p.err = d.err, !.p.rs = MemRS(d.buf)]

\* else { ... }: the handle of NewReader
retreive_r(w, e) ==
    IF ~w.p.r
    THEN [w EXCEPT !.p.bad = TRUE]
    ELSE LET d  == ReadAll(w, e)
             w1 == [d.w EXCEPT !.p.err = d.err, !.p.rs = MemRS(d.buf)]
         IN IF w1.p.c THEN CloseIfCloser(w1, w1.p.r) ELSE w1

\* p.loaded = true
setLoaded(w) == [Ev(w, "loaded") EXCEPT !.p.loaded = TRUE]

\* Variant of retreive that returns early, before p.loaded = true, when the
\* read-seeker factory produced nothing.
retreive_earlyReturn(w, e) ==
    IF w.p.getrs
    THEN LET w1 == retreive_getrs(w)
         IN IF w1.p.rs = NilRS THEN w1 ELSE setLoaded(w1)
    ELSE setLoaded(IF w.p.getr THEN retreive_getr(w, e) ELSE retreive_r(w, e))

\* func (p *Postpone) retreive()
retreive(w, e) ==
    setLoaded(IF w.p.getrs THEN retreive_getrs(w)
              ELSE IF w.p.getr THEN retreive_getr(w, e)
              ELSE retreive_r(w, e))

\* ------------------------------------------------------------- methods
Result(w, n, err, out, delegated, panic) ==
    [w |-> w, n |-> n, err |-> err, out |-> out,
     delegated |-> delegated, panic |-> panic]

\* Variant of Load that does nothing.
Load_noop(w, e) == Result(w, 0, Nil, <<>>, FALSE, FALSE)

\* func (p *Postpone) Load()
Load(w, e) == Result(retreive(w, e), 0, Nil, <<>>, FALSE, FALSE)

\* func (p *Postpone) Loaded() bool
Loaded(w) == w.p.loaded

\* Variant of the failed check that tests the stream instead of the flag.
isBad_rsNil(w) == w.p.rs = NilRS

\* if p.bad { return 0, p.err }
isBad(w) == w.p.bad

\* Variant of Read that returns the stream's error alone.
Read_liveOnly(w, n, e) ==
    LET w1 == IF ~w.p.loaded THEN retreive(w, e) ELSE w
    IN IF isBad(w1)
       THEN Result(w1, 0, w1.p.err, <<>>, FALSE, FALSE)
       ELSE LET r == rsRead(w1, n)
            IN Result(r.w, r.n, r.err, r.out, TRUE, r.panic)

\* func (p *Postpone) Read(buf []byte) (int, error)
Read(w, n, e) ==
    LET w1 == IF ~w.p.loaded THEN retreive(w, e) ELSE w
    IN IF isBad(w1)
       THEN Result(w1, 0, w1.p.err, <<>>, FALSE, FALSE)
       ELSE LET r == rsRead(w1, n)
            IN Result(r.w, r.n, Merge(r.err, w1.p.err), r.out, TRUE, r.panic)

\* Variant of Seek that returns 0 instead of the position the stream reports.
Seek_dropPos(w, offset, whence, e) ==
    LET w1 == IF ~w.p.loaded THEN retreive(w, e) ELSE w
    IN IF isBad(w1)
       THEN Result(w1, 0, w1.p.err, <<>>, FALSE, FALSE)
       ELSE LET r == rsSeek(w1, offset, whence)
            IN Result(r.w, 0, Merge(r.err, w1.p.err), <<>>, TRUE, r.panic)

\* func (p *Postpone) Seek(offset int64, whence int) (int64, error)
Seek(w, offset, whence, e) ==
    LET w1 == IF ~w.p.loaded THEN retreive(w, e) ELSE w
    IN IF isBad(w1)
       THEN Result(w1, 0, w1.p.err, <<>>, FALSE, FALSE)
       ELSE LET r == rsSeek(w1, offset, whence)
            IN Result(r.w, r.n, Merge(r.err, w1.p.err), <<>>, TRUE, r.panic)

\* --------------------------------------------------------- specification
Whences == {"start", "current", "end"}
Offsets == -1..MaxLen

NoFac == [stream |-> FALSE, err |-> Nil]
NoSrc == [closeable |-> FALSE, data |-> <<>>, pos |-> 0, err |-> Nil,
          closed |-> FALSE]
Sources(closeables, errs) ==
    [closeable : closeables, data : Datas, pos : {0}, err : errs,
     closed : {FALSE}]

\* os.Open: (f, nil) or (nil, err); an *os.File is an io.Closer.
OpenOutcomes == {[stream |-> TRUE, err |-> Nil], [stream |-> FALSE, err |-> ErrOpen]}
\* A caller's function may return any combination.
FuncOutcomes == [stream : BOOLEAN, err : {Nil, ErrOpen}]

NoRet == [op |-> "new", n |-> 0, err |-> Nil, out |-> <<>>,
          delegated |-> FALSE, panic |-> FALSE, b |-> FALSE]

\* Concurrent use: the threads, and the state in which none has called yet.
Threads == {"t1", "t2"}
IdleThread == [pc |-> "idle", op |-> "none", acq |-> FALSE, n |-> 0,
               err |-> Nil, delegated |-> FALSE]
ConcIdle == [t |-> [x \in Threads |-> IdleThread], overlap |-> FALSE]

Init ==
    /\ log = <<>>
    /\ ret = NoRet
    /\ ncalls = 0
    /\ conc = ConcIdle
    /\ \/ /\ ctor = "NewFile"
          /\ p = NewFile
          /\ fac \in OpenOutcomes
          /\ src \in IF fac.stream THEN Sources({TRUE}, {Nil}) ELSE {NoSrc}
       \/ /\ ctor = "NewFilePre"
          /\ p = NewFilePre
          /\ fac \in OpenOutcomes
          /\ src \in IF fac.stream THEN Sources({TRUE}, {Nil, ErrIO}) ELSE {NoSrc}
       \/ /\ ctor = "NewFunc"
          /\ \E c \in BOOLEAN : p = NewFunc(c)
          /\ fac \in FuncOutcomes
          /\ src \in IF fac.stream THEN Sources(BOOLEAN, {Nil}) ELSE {NoSrc}
       \/ /\ ctor = "NewFuncPre"
          /\ \E c \in BOOLEAN : p = NewFuncPre(c)
          /\ fac \in FuncOutcomes
          /\ src \in IF fac.stream THEN Sources(BOOLEAN, {Nil, ErrIO}) ELSE {NoSrc}
       \/ /\ ctor = "NewReader"
          /\ \E r \in BOOLEAN, c \in BOOLEAN :
               /\ p = NewReader(r, c)
               /\ src \in IF r THEN Sources(BOOLEAN, {Nil, ErrIO}) ELSE {NoSrc}
          /\ fac = NoFac

Commit(r, op) ==
    /\ p' = r.w.p
    /\ src' = r.w.src
    /\ log' = r.w.log
    /\ ret' = [op |-> op, n |-> r.n, err |-> r.err, out |-> r.out,
               delegated |-> r.delegated, panic |-> r.panic, b |-> FALSE]
    /\ ncalls' = ncalls + 1
    /\ UNCHANGED <<ctor, fac, conc>>

DoRead ==
    /\ ncalls < MaxCalls
    /\ \E n \in 1..MaxBuf, e \in DrainErrs(World) :
         Commit(Read(World, n, e), "Read")

DoSeek ==
    /\ ncalls < MaxCalls
    /\ \E offset \in Offsets, whence \in Whences, e \in DrainErrs(World) :
         Commit(Seek(World, offset, whence, e), "Seek")

DoLoad ==
    /\ ncalls < MaxCalls
    /\ \E e \in DrainErrs(World) : Commit(Load(World, e), "Load")

DoLoaded ==
    /\ ret' = [NoRet EXCEPT !.op = "Loaded", !.b = Loaded(World)]
    /\ UNCHANGED <<ctor, p, fac, src, log, ncalls, conc>>

Next == DoRead \/ DoSeek \/ DoLoad \/ DoLoaded

Spec == Init /\ [][Next]_vars

\* ------------------------------------------------------ concurrent first use
\* Two threads call Read, Seek or Load on one NewFunc handle with no
\* synchronisation.  A call is a sequence of steps, one per read or write of
\* a field of p: the test of p.loaded, the test of p.getrs, the call of the
\* factory with the assignment of its results, p.getrs = nil, the test of
\* p.rs, p.loaded = true, the test of p.bad, the delegated call.  Steps of
\* the two threads interleave in any order; each thread makes one call.

\* Variant of the test of p.loaded that always runs retreive.
c_notLoaded_always(w) == TRUE

\* if !p.loaded
c_notLoaded(w) == ~w.p.loaded

\* p.rs, p.err = p.getrs()
c_call(w) ==
    [Ev(w, "getrs") EXCEPT !.p.rs = IF w.fac.stream THEN LiveRS ELSE NilRS,
                           !.p.err = w.fac.err]

\* Variant of the clearing of the factory reference that keeps it.
c_clear_keep(w) == w

\* p.getrs = nil
c_clear(w) == [w EXCEPT !.p.getrs = FALSE]

\* if p.rs == nil { p.bad = true }
c_nilcheck(w) == IF w.p.rs = NilRS THEN [w EXCEPT !.p.bad = TRUE] ELSE w

Other(t) == CHOOSE u \in Threads : u # t
InCall(t) == conc.t[t].pc \notin {"idle", "done", "panic"}

\* The step of thread t: the handle and the outside become w, the thread's
\* record becomes th.
CStep(t, w, th) ==
    /\ p' = w.p
    /\ src' = w.src
    /\ log' = w.log
    /\ conc' = [conc EXCEPT !.t[t] = th]
    /\ UNCHANGED <<ctor, fac, ret, ncalls>>

CGoto(t, w, pc) == CStep(t, w, [conc.t[t] EXCEPT !.pc = pc])

\* The thread calls Read, Seek or Load.  Load enters retreive directly.
CStart(t) ==
    /\ conc.t[t].pc = "idle"
    /\ \E op \in {"Read", "Seek", "Load"} :
         /\ conc' = [conc EXCEPT
                        !.t[t].op = op,
                        !.t[t].pc = IF op = "Load" THEN "branch" ELSE "check",
                        !.t[t].acq = (op = "Load"),
                        !.overlap = @ \/ InCall(Other(t))]
         /\ ncalls' = ncalls + 1
         /\ UNCHANGED <<ctor, p, fac, src, log, ret>>

\* Read / Seek: if !p.loaded { p.retreive() }
CCheck(t) ==
    /\ conc.t[t].pc = "check"
    /\ IF c_notLoaded(World)
       THEN CStep(t, World, [conc.t[t] EXCEPT !.pc = "branch", !.acq = TRUE])
       ELSE CGoto(t, World, "badcheck")

\* retreive: if p.getrs != nil ... else if p.getr != nil ... else ...
\* (the two later branches are run as one step)
CBranch(t) ==
    /\ conc.t[t].pc = "branch"
    /\ IF p.getrs
       THEN CGoto(t, World, "call")
       ELSE CGoto(t, IF p.getr THEN retreive_getr(World, src.err)
                     ELSE retreive_r(World, src.err), "setloaded")

\* p.rs, p.err = p.getrs(): the call of a function value that has become
\* nil in the meantime panics.
CCall(t) ==
    /\ conc.t[t].pc = "call"
    /\ IF p.getrs
       THEN CGoto(t, c_call(World), "clear")
       ELSE CGoto(t, World, "panic")

CClear(t) ==
    /\ conc.t[t].pc = "clear"
    /\ CGoto(t, c_clear(World), "nilcheck")

CNilCheck(t) ==
    /\ conc.t[t].pc = "nilcheck"
    /\ CGoto(t, c_nilcheck(World), "setloaded")

CSetLoaded(t) ==
    /\ conc.t[t].pc = "setloaded"
    /\ CGoto(t, setLoaded(World),
             IF conc.t[t].op = "Load" THEN "done" ELSE "badcheck")

\* if p.bad { return 0, p.err }
CBadCheck(t) ==
    /\ conc.t[t].pc = "badcheck"
    /\ IF isBad(World)
       THEN CStep(t, World, [conc.t[t] EXCEPT !.pc = "done", !.n = 0,
                                              !.err = p.err])
       ELSE CGoto(t, World, "deleg")

\* i, err := p.rs.Read(buf) / p.rs.Seek(offset, whence) and the return.
CReturn(t, r) ==
    CStep(t, r.w, [conc.t[t] EXCEPT
                     !.pc = IF r.panic THEN "panic" ELSE "done",
                     !.n = r.n,
                     !.err = Merge(r.err, p.err),
                     !.delegated = TRUE])

CDelegate(t) ==
    /\ conc.t[t].pc = "deleg"
    /\ IF conc.t[t].op = "Read"
       THEN \E n \in 1..MaxBuf : CReturn(t, rsRead(World, n))
       ELSE \E offset \in Offsets, whence \in Whences :
               CReturn(t, rsSeek(World, offset, whence))

ConcInit ==
    /\ log = <<>>
    /\ ret = NoRet
    /\ ncalls = 0
    /\ conc = ConcIdle
    /\ ctor = "NewFunc"
    /\ \E c \in BOOLEAN : p = NewFunc(c)
    /\ fac \in FuncOutcomes
    /\ src \in IF fac.stream THEN Sources(BOOLEAN, {Nil}) ELSE {NoSrc}

ConcNext ==
    \E t \in Threads :
        \/ CStart(t)
        \/ CCheck(t)
        \/ CBranch(t)
        \/ CCall(t)
        \/ CClear(t)
        \/ CNilCheck(t)
        \/ CSetLoaded(t)
        \/ CBadCheck(t)
        \/ CDelegate(t)

SpecConc == ConcInit /\ [][ConcNext]_vars

\* ------------------------------------------------------------ vocabulary
Invocations == Count(log, "getr") + Count(log, "getrs")
Drains == Count(log, "drain")
SourceReads == Drains + Count(log, "src.Read") + Count(log, "src.Seek")
Closes == Count(log, "close")

\* What the handle did to the outside: the log without the markers of
\* p.loaded = true.
Effects(l) == SelectSeq(l, LAMBDA x : x # "loaded")

FactoryCtors == {"NewFile", "NewFilePre", "NewFunc", "NewFuncPre"}
PreloadCtors == {"NewFilePre", "NewFuncPre", "NewReader"}

\* The handle has a source: the factory returns one, or NewReader was given one.
HasSource == IF ctor = "NewReader" THEN p.r ELSE fac.stream

IsReadOrSeek(r) == r.op \in {"Read", "Seek"}

\* The step is a call of Load / of Read or Seek.
LoadStep == ret'.op = "Load" /\ ncalls' = ncalls + 1
ReadSeekStep == IsReadOrSeek(ret') /\ ncalls' = ncalls + 1

\* The part of the log written by the first acquisition.
FirstAcquisition ==
    LET k == CHOOSE i \in 1..Len(log) :
               log[i] = "loaded" /\ \A j \in 1..(i - 1) : log[j] # "loaded"
    IN SubSeq(log, 1, k)

\* ---------------------------------------------------------------- claims

\* C1: deferral. While Loaded() is false (none of Read, Seek, Load has been
\* called), the factory has not been invoked, the source has not been read
\* and nothing has been closed.
C1_Deferral ==
    ~Loaded(World) =>
        /\ Invocations = 0
        /\ SourceReads = 0
        /\ Closes = 0
        /\ p.rs = NilRS

C1_Witness ==
    /\ ctor = "NewFilePre"
    /\ fac.stream
    /\ ret.op = "Loaded"
    /\ ~ret.b
    /\ ~p.loaded

\* C2: Loaded() is false right after construction, true once the first Read,
\* Seek or Load has returned (also when acquisition failed), and p.loaded
\* never goes back to false.
C2_LoadedOnce ==
    /\ [](p.loaded <=> ncalls > 0)
    /\ [](ret.op = "Loaded" => ret.b = p.loaded)
    /\ [][p.loaded => p.loaded']_vars

C2_Witness ==
    /\ p.loaded
    /\ p.bad
    /\ ncalls >= 2
    /\ ret.op = "Loaded"
    /\ ret.b

\* C3: a factory is invoked at most once over any sequence of Read, Seek and
\* Load calls, whether it succeeded or failed, and the factory reference is
\* nil from the first invocation on.
C3_FactoryOnce ==
    /\ Invocations <= 1
    /\ Invocations >= 1 => (~p.getr /\ ~p.getrs)
    /\ (ctor \in FactoryCtors /\ ncalls >= 1) => Invocations = 1

C3_Witness ==
    /\ ctor = "NewFile"
    /\ ~fac.stream
    /\ p.bad
    /\ ncalls >= 3
    /\ Invocations = 1

\* C4 (as claimed): Load on a handle that is already acquired changes nothing
\* of the handle and does nothing to the outside.
C4_LoadIdempotent ==
    [][(LoadStep /\ p.loaded) =>
          (p' = p /\ src' = src /\ Effects(log') = Effects(log))]_vars

\* C5 (as claimed): when the factory returns a non-nil error, whatever stream
\* comes with it, the handle is failed and every Read and Seek returns
\* (0, that error) without delegating.
C5_FactoryErrorFails ==
    (ctor \in FactoryCtors /\ fac.err # Nil /\ IsReadOrSeek(ret)) =>
        /\ p.bad
        /\ ret.n = 0
        /\ ret.err = fac.err
        /\ ~ret.delegated

\* C6 (as claimed): when no resource is produced and no error is given, the
\* handle is failed and every Read and Seek returns a non-nil error.
C6_NoResourceError ==
    (~HasSource /\ fac.err = Nil /\ IsReadOrSeek(ret)) =>
        /\ p.bad
        /\ ret.err # Nil

\* C7: failure is sticky. Once p.bad is true it stays true, the remembered
\* error does not change, and every later Read and Seek returns (0, that
\* error), writes nothing to the caller's buffer and delegates to no stream.
C7_FailureSticky ==
    [][p.bad =>
          /\ p.bad'
          /\ p.err' = p.err
          /\ ReadSeekStep =>
                /\ ret'.n = 0
                /\ ret'.err = p.err
                /\ ret'.out = <<>>
                /\ ~ret'.delegated
                /\ ~ret'.panic
                /\ Effects(log') = Effects(log)
                /\ src' = src
                /\ p'.rs = p.rs]_vars

C7_Witness ==
    /\ p.bad
    /\ ncalls >= 3
    /\ ret.op = "Seek"
    /\ ret.n = 0
    /\ ret.err = ErrOpen

C9_NoCloseWithoutFlag ==
    (ctor \in {"NewFuncPre", "NewReader"} /\ ~p.c) => (Closes = 0 /\ ~src.closed)

C9_Witness ==
    /\ ctor = "NewFuncPre"
    /\ ~p.c
    /\ fac.stream
    /\ src.closeable
    /\ Drains = 1
    /\ ncalls >= 2

\* C10 (as claimed): the handle calls Close on its resource at most once in
\* its lifetime.
C10_CloseAtMostOnce == Closes <= 1

\* Number of times retreive has run.
Acquisitions == Count(log, "loaded")

\* The position Read and Seek act from: that of the acquired stream.
Pos == IF p.loaded THEN p.rs.pos ELSE 0

\* Read with buffers of n bytes until a Read returns an error (at most
\* fuel + 1 Reads): the bytes returned, concatenated, and that error.
RECURSIVE ReadToEnd(_, _, _)
ReadToEnd(w, n, fuel) ==
    LET r == Read(w, n, w.src.err)
    IN IF r.err # Nil \/ fuel = 0
       THEN [bytes |-> r.out, err |-> r.err]
       ELSE LET rest == ReadToEnd(r.w, n, fuel - 1)
            IN [bytes |-> r.out \o rest.bytes, err |-> rest.err]

\* A preload handle whose source delivers its bytes and then end-of-data, on
\* which retreive has run at most once.
CleanPreload ==
    /\ ctor \in PreloadCtors
    /\ HasSource
    /\ fac.err = Nil
    /\ src.err = Nil
    /\ Acquisitions <= 1

\* C11: for a preload handle whose source delivers B and then end-of-data,
\* over Read and Seek calls: a Read with a buffer of n >= 1 bytes at position
\* i returns the next min(n, len(B) - i) bytes of B and advances by them, and
\* end-of-data with no bytes at the end, so successive Reads return B; and
\* Seek(o, start) for 0 <= o <= len(B) returns o, after which Reads return
\* exactly B[o:] and then end-of-data.
C11_ReadBack ==
    CleanPreload =>
        LET B == src.data
        IN /\ \A n \in 1..MaxBuf :
                LET r == Read(World, n, src.err)
                    k == Min(n, Len(B) - Pos)
                IN IF Pos >= Len(B)
                   THEN r.n = 0 /\ r.out = <<>> /\ r.err.errs = <<"EOF">>
                   ELSE /\ r.n = k
                        /\ r.out = SubSeq(B, Pos + 1, Pos + k)
                        /\ r.err = Nil
                        /\ r.w.p.rs.pos = Pos + k
           /\ \A o \in 0..Len(B), n \in 1..MaxBuf :
                LET s == Seek(World, o, "start", src.err)
                    t == ReadToEnd(s.w, n, Len(B))
                IN /\ s.n = o
                   /\ s.err = Nil
                   /\ t.bytes = SubSeq(B, o + 1, Len(B))
                   /\ t.err.errs = <<"EOF">>
           /\ ncalls = 0 =>
                \A n \in 1..MaxBuf :
                   LET t == ReadToEnd(World, n, Len(B))
                   IN t.bytes = B /\ t.err.errs = <<"EOF">>

C11_Witness ==
    /\ CleanPreload
    /\ ctor = "NewFuncPre"
    /\ src.data = <<"a", "b">>
    /\ ncalls = 3
    /\ ret.op = "Read"
    /\ ret.out = <<"b">>
    /\ ret.err = Nil
    /\ p.rs.pos = 2

Range(q) == {q[i] : i \in 1..Len(q)}

\* got is the merge of the delegated call's error and the remembered one.
IsMergeOf(got, live, remembered) ==
    /\ (live = Nil /\ remembered = Nil) => got = Nil
    /\ (live # Nil /\ remembered = Nil) => got = live
    /\ (live = Nil /\ remembered # Nil) => got = remembered
    /\ (live # Nil /\ remembered # Nil) =>
          /\ got.kind = "list"
          /\ Range(got.errs) = Range(live.errs) \cup Range(remembered.errs)

\* C12: on an acquired, non-failed handle Read and Seek return the byte count
\* / position of the delegated call, and as error the merge of the delegated
\* call's error and p.err: nil, the one that is non-nil (so io.EOF itself when
\* nothing is remembered), or one composite holding both.
C12_ErrorMerge ==
    (p.loaded /\ ~p.bad) =>
        /\ \A n \in 1..MaxBuf :
             LET d == rsRead(World, n)
                 r == Read(World, n, src.err)
             IN /\ r.n = d.n
                /\ r.out = d.out
                /\ IsMergeOf(r.err, d.err, p.err)
                /\ (p.err = Nil /\ d.err = EOF) => r.err = EOF
        /\ \A o \in Offsets, wh \in Whences :
             LET d == rsSeek(World, o, wh)
                 r == Seek(World, o, wh, src.err)
             IN /\ r.n = d.n
                /\ IsMergeOf(r.err, d.err, p.err)

C12_Witness ==
    /\ p.loaded
    /\ ~p.bad
    /\ p.err = ErrIO
    /\ ret.op = "Read"
    /\ ret.delegated
    /\ ret.n = 0
    /\ ret.err.kind = "list"
    /\ ret.err.errs = <<"EOF", "ErrIO">>

\* C13 (as claimed): when the drain of a preload source stops on an error E,
\* the handle is acquired and not failed, and every Read and Seek, after any
\* sequence of Read, Seek and Load calls, returns an error that includes E.
C13_DrainErrorKept ==
    (ctor \in PreloadCtors /\ HasSource /\ fac.err = Nil /\ src.err = ErrIO
       /\ ncalls >= 1) =>
        /\ p.loaded
        /\ ~p.bad
        /\ "ErrIO" \in Range(p.err.errs)
        /\ IsReadOrSeek(ret) => (ret.delegated /\ "ErrIO" \in Range(ret.err.errs))

\* C14 (as claimed): a handle built by NewFunc with the close flag set, whose
\* factory returned a stream that is an io.Closer, has called Close on it by
\* the time the stream has been acquired and read to end-of-data.
C14_NewFuncCloses ==
    (ctor = "NewFunc" /\ p.c /\ fac.stream /\ src.closeable
       /\ ret.op = "Read" /\ ret.delegated /\ "EOF" \in Range(ret.err.errs)) =>
        Closes >= 1

\* C15 (as claimed): a preload handle drains its source at most once and
\* never replaces the buffer it adopted, over any sequence of Read, Seek and
\* Load calls.
C15_DrainOnce ==
    [][(ctor \in PreloadCtors /\ p.loaded) =>
          (Count(log', "drain") = Count(log, "drain")
             /\ p'.rs.kind = p.rs.kind /\ p'.rs.data = p.rs.data)]_vars

\* C17 (as claimed): once the handle is acquired and not failed, no Read,
\* Seek or Load sets p.bad.
C17_SuccessStable ==
    [][(p.loaded /\ ~p.bad) => ~p.bad']_vars

\* C18: in every state reached by Read, Seek and Load calls, an acquired
\* handle that is not failed has a non-nil p.rs, and no Read or Seek has
\* called a method of a nil stream.
C18_StreamPresent ==
    /\ (p.loaded /\ ~p.bad) => p.rs # NilRS
    /\ ~ret.panic
    /\ ret.delegated => p.rs # NilRS

C18_Witness ==
    /\ ctor = "NewFunc"
    /\ fac.stream
    /\ fac.err = ErrOpen
    /\ p.loaded
    /\ ~p.bad
    /\ p.rs = LiveRS
    /\ ret.op = "Seek"
    /\ ret.delegated

\* The threads that have entered retreive.
Entered == {t \in Threads : conc.t[t].acq}
NoLoadCalls == \A t \in Threads : conc.t[t].op # "Load"
AllDone == \A t \in Threads : conc.t[t].pc = "done"

\* C16: under concurrent first use there is an interleaving in which
\* retreive runs twice and the factory is invoked twice (the witness); the
\* factory is invoked twice, and Read/Seek calls run retreive twice, only
\* when the two calls overlap, and each run of retreive invokes it at most
\* once.
C16_TwiceOnlyByRace ==
    /\ Invocations >= 2 => conc.overlap
    /\ (NoLoadCalls /\ Cardinality(Entered) >= 2) => conc.overlap
    /\ Invocations <= Cardinality(Entered)

C16_Witness ==
    /\ NoLoadCalls
    /\ AllDone
    /\ Cardinality(Entered) = 2
    /\ Acquisitions = 2
    /\ Invocations = 2
    /\ p.getrs = FALSE

\* C19: under concurrent first use of a NewFunc handle whose factory returns
\* a stream and no error, there is an interleaving after which p.bad is set
\* and Read returns (0, nil) (the witness); with Read and Seek calls alone
\* that happens only when the two calls overlap, p.bad once set stays set,
\* and a Read or Seek that returns without delegating returns (0, nil).
C19_GoodHandleFails ==
    /\ []((fac.stream /\ fac.err = Nil /\ p.bad /\ NoLoadCalls) => conc.overlap)
    /\ [][p.bad => p.bad']_vars
    /\ [](\A t \in Threads :
            (fac.stream /\ fac.err = Nil /\ conc.t[t].pc = "done"
               /\ conc.t[t].op \in {"Read", "Seek"} /\ ~conc.t[t].delegated) =>
                (p.bad /\ conc.t[t].n = 0 /\ conc.t[t].err = Nil))

C19_Witness ==
    /\ fac.stream
    /\ fac.err = Nil
    /\ NoLoadCalls
    /\ AllDone
    /\ Invocations = 1
    /\ p.rs = LiveRS
    /\ p.bad
    /\ \A t \in Threads :
         /\ conc.t[t].op = "Read"
         /\ ~conc.t[t].delegated
         /\ conc.t[t].n = 0
         /\ conc.t[t].err = Nil
====
